---- MODULE Spec2Model ----
(***************************************************************************)
(* Calculator with bounded history and snapshot based undo/redo.           *)
(*                                                                         *)
(* The model follows CalculatorApp (src/app/calculator.py), which owns a   *)
(* CalculationHistory and an UndoRedoManager                               *)
(* (src/app/calculator_memento.py).  The CalculationHistory class is       *)
(* imported from app.history but is not among the sources; its methods     *)
(* are modelled from the specification of the History Store and of the     *)
(* Persistence Adapter.                                                     *)
(*                                                                         *)
(* Every command is one action.  The effect of a command is a function     *)
(* from session state to session state (CalculatorApp_undo, ...), so that  *)
(* properties about "the command issued right after" can be stated in a    *)
(* single state by applying these functions.                               *)
(***************************************************************************)
EXTENDS Integers, Sequences, FiniteSets, TLC

\* ------------------------------------------------------------------ bounds
\* Largest capacity a session of Spec is constructed with.
MaxHistorySize == 2
\* Largest depth the undo stack grows to in Spec.
MaxStack == 2
\* Largest number of calculations created in one session of Spec.
MaxClock == 3
\* Number of calculations and snapshots in a session of ExampleSpec.
ExampleAdds == 4
\* Largest absolute value of an operand in OpsSpec.
MaxOperand == 9
\* Largest integer exponent for which OpsSpec computes the power.
MaxExactPower == 4
\* Largest number of rows written to the history file in PersistSpec.
MaxRows == 2
\* Largest bound of an operand in ValidatorSpec and ReplSpec.
MaxInputValue == 2
\* Largest number of calculations in a session of ReplSpec.
MaxReplCalcs == 2
\* Largest number of watchers registered after construction.
MaxWatchers == 2
\* Largest number of list objects allocated in a session of HeapSpec.
MaxObjects == 7

\* ------------------------------------------------------- program constants
\* CALCULATOR_MAX_INPUT_VALUE default.
max_input_value == 1000000
\* CALCULATOR_AUTO_SAVE default.
auto_save == TRUE
\* Capacity of the history in the worked example (and in the history tests).
ExampleCapacity == 3

\* ------------------------------------------------------------------ inputs
\* Operand tokens typed by the user: numbers, or text that is not a number.
NUM(n) == [kind |-> "num", val |-> n]
NAN == [kind |-> "text", val |-> 0]
OperandsA == {NUM(1), NUM(max_input_value + 1), NAN}
OperandsB == {NUM(0)}
OpNames == {"add", "divide", "sqrt"}

VARIABLES
    history,      \* CalculatorApp.history._history
    undo_stack,   \* CalculatorApp.undo_manager._undo_stack
    redo_stack,   \* CalculatorApp.undo_manager._redo_stack
    max_size,     \* capacity of CalculatorApp.history, fixed at construction
    file,         \* rows of the persisted history file, NoFile if absent
    clock,        \* datetime.now(): number of calculations created so far
    cmd,          \* the command processed last
    raised,       \* the exception raised while processing it, "none" if none
    history_file, \* the CSV file at AutoSaveObserver.history_file
    ret,          \* what the last AutoSaveObserver.load returned
    call,         \* the operation call under evaluation: implementation,
                  \* operation name and the two operands
    outcome,      \* what that call raised and returned, once evaluated
    registry,     \* OperationFactory._operations: name -> operation class
    created,      \* what the last create_operation / create returned
    raw_input,    \* what the last input() of the command loop delivered
    parsed,       \* what the last parse_operand returned
    is_running,   \* the command loop has not ended
    watchers,     \* CalculatorApp.watchers registered after construction
    notified,     \* the notifications delivered by the last command
    input_helper, \* REPL.input_helper: the bounds of an operand
    loop,         \* the command loop that is running, "none" if none is
    printed,      \* the messages the command loop printed for the last line
    heap          \* the list objects behind the history and the snapshots

vars == <<history, undo_stack, redo_stack, max_size, file, clock, cmd, raised,
          history_file, ret, call, outcome, registry, created, raw_input,
          parsed, is_running, watchers, notified,
                   input_helper, loop, printed, heap>>

\* The list objects of a new CalculatorApp: the empty list of its history,
\* at address 1, and two empty stacks of snapshots.
NoHeap == [lists |-> << <<>> >>, live |-> 1, undo |-> <<>>, redo |-> <<>>]

NoFile == [exists |-> FALSE, rows |-> <<>>]
FileOf(rows) == [exists |-> TRUE, rows |-> rows]

\* The CSV file of AutoSaveObserver: absent, or present with a shape and its
\* data rows.  Shape "table" is a file written by DataFrame.to_csv; the other
\* shapes are files with a wrong column count (see corrupt_file).
NoHistoryFile == [exists |-> FALSE, shape |-> "table", rows |-> <<>>]
CsvFile(shape, rows) == [exists |-> TRUE, shape |-> shape, rows |-> rows]

\* No load has returned yet; no call is under evaluation.
NoReturn == [kind |-> "unset", records |-> <<>>]
NoValue == [kind |-> "none", n |-> 0, d |-> 1]
NoCall == [impl |-> "none", op |-> "none",
           a |-> [n |-> 0, d |-> 1], b |-> [n |-> 0, d |-> 1]]
NoOutcome == [done |-> FALSE, raised |-> "none", value |-> NoValue]

\* OperationFactory._operations as the class is loaded.
DefaultOperations ==
    [add |-> "Addition", subtract |-> "Subtraction",
     multiply |-> "Multiplication", divide |-> "Division",
     power |-> "Power", root |-> "Root", modulus |-> "Modulus",
     int_divide |-> "IntegerDivision", percent |-> "Percentage",
     abs_diff |-> "AbsoluteDifference"]
\* Nothing created, read or parsed yet.
NoInstance ==
    [raised |-> "none", instance |-> "none", name |-> "",
     cls |-> [name |-> "none", base |-> "object"]]
NoInput == [kind |-> "none", command |-> "", args |-> <<>>]
NoParse == [raised |-> "none", value |-> 0, done |-> FALSE]

Front(s) == SubSeq(s, 1, Len(s) - 1)
Last(s) == s[Len(s)]

\* ------------------------------------------------------------ Operations
\* OperationFactory._operations: the registered names.
OperationFactory_operations ==
    {"add", "subtract", "multiply", "divide", "power", "root",
     "modulus", "int_divide", "percent", "abs_diff"}

\* OperationFactory.create_operation: ValueError for an unknown name.
create_operation(op_name) ==
    IF op_name \in OperationFactory_operations
    THEN [raised |-> "none", op |-> op_name]
    ELSE [raised |-> "ValueError", op |-> op_name]

\* Addition.execute and Division.execute on integer operands; the quotient
\* is exact for the operands the sessions use.
Operation_execute(op, a, b) ==
    CASE op = "add"    -> [raised |-> "none", value |-> a + b]
      [] op = "divide" ->
            IF b = 0 THEN [raised |-> "ValidationError", value |-> 0]
            ELSE [raised |-> "none", value |-> a \div b]
      [] OTHER         -> [raised |-> "OperationError", value |-> 0]

\* Calculation: the record that enters the history.
Calculation(op, a, b, result, now) ==
    [operation |-> op, operand_a |-> a, operand_b |-> b, result |-> result,
     timestamp |-> now]

\* validate_number: the operand must convert to a number.
validate_number(tok) == tok.kind = "num"
\* validate_in_range: the absolute value must not exceed the maximum.
validate_in_range(v, max) == -max <= v /\ v <= max

\* ----------------------------------------------------- CalculationHistory
\* Variant: on overflow the newest records are dropped instead of the oldest.
CalculationHistory_add_calculation_keep_oldest(h, calc, max) ==
    LET appended == Append(h, calc)
    IN  IF Len(appended) > max THEN SubSeq(appended, 1, max) ELSE appended

\* add_calculation: append, then evict the oldest records over capacity.
CalculationHistory_add_calculation(h, calc, max) ==
    LET appended == Append(h, calc)
    IN  IF Len(appended) > max
        THEN SubSeq(appended, Len(appended) - max + 1, Len(appended))
        ELSE appended

\* clear_history: empties the store.
CalculationHistory_clear_history(h) == <<>>

\* get_history: an independent copy of the sequence.
CalculationHistory_get_history(h) == h

\* save_to_csv: the file holds exactly the given records afterwards.
CalculationHistory_save_to_csv(h) == FileOf(h)

\* load_from_csv: the persisted rows, or nothing if there is no file.
CalculationHistory_load_from_csv(f) == IF f.exists THEN f.rows ELSE <<>>

\* -------------------------------------------------------- UndoRedoManager
\* HistorySnapshot(records) and retrieve() deep-copy: the value itself.
HistorySnapshot(records) == records
retrieve(snapshot) == snapshot

\* Variant: the undo stack is replaced by the new snapshot.
UndoRedoManager_record_state_single(u, r, current_history) ==
    [undo |-> <<HistorySnapshot(current_history)>>, redo |-> <<>>]

\* record_state: push a snapshot of the current history, clear the redo stack.
UndoRedoManager_record_state(u, r, current_history) ==
    [undo |-> Append(u, HistorySnapshot(current_history)), redo |-> <<>>]

\* Variant: the redo stack receives the restored state, not the current one.
UndoRedoManager_undo_saves_previous(u, r, current_history) ==
    IF u = <<>>
    THEN [raised |-> "HistoryError", undo |-> u, redo |-> r,
          ret |-> current_history]
    ELSE [raised |-> "none",
          undo |-> Front(u),
          redo |-> Append(r, HistorySnapshot(retrieve(Last(u)))),
          ret |-> retrieve(Last(u))]

\* Variant: the current state is pushed before the empty check.
UndoRedoManager_undo_push_first(u, r, current_history) ==
    IF u = <<>>
    THEN [raised |-> "HistoryError", undo |-> u,
          redo |-> Append(r, HistorySnapshot(current_history)),
          ret |-> current_history]
    ELSE [raised |-> "none",
          undo |-> Front(u),
          redo |-> Append(r, HistorySnapshot(current_history)),
          ret |-> retrieve(Last(u))]

\* undo: HistoryError on an empty undo stack; else push the current history
\* onto the redo stack, pop the undo stack and return what it held.
UndoRedoManager_undo(u, r, current_history) ==
    IF u = <<>>
    THEN [raised |-> "HistoryError", undo |-> u, redo |-> r,
          ret |-> current_history]
    ELSE [raised |-> "none",
          undo |-> Front(u),
          redo |-> Append(r, HistorySnapshot(current_history)),
          ret |-> retrieve(Last(u))]

\* Variant: the oldest redo entry is taken instead of the newest.
UndoRedoManager_redo_oldest(u, r, current_history) ==
    IF r = <<>>
    THEN [raised |-> "HistoryError", undo |-> u, redo |-> r,
          ret |-> current_history]
    ELSE [raised |-> "none",
          undo |-> Append(u, Head(r)),
          redo |-> Tail(r),
          ret |-> retrieve(Head(r))]

\* Variant: no error on an empty redo stack.
UndoRedoManager_redo_unchecked(u, r, current_history) ==
    IF r = <<>>
    THEN [raised |-> "none", undo |-> u, redo |-> r,
          ret |-> current_history]
    ELSE [raised |-> "none",
          undo |-> Append(u, Last(r)),
          redo |-> Front(r),
          ret |-> retrieve(Last(r))]

\* Variant: the snapshot is read from the redo stack but left on it.
UndoRedoManager_redo_peek(u, r, current_history) ==
    IF r = <<>>
    THEN [raised |-> "HistoryError", undo |-> u, redo |-> r,
          ret |-> current_history]
    ELSE [raised |-> "none",
          undo |-> Append(u, Last(r)),
          redo |-> r,
          ret |-> retrieve(Last(r))]

\* redo: HistoryError on an empty redo stack.  redo() takes no argument: the
\* state it pushes onto the undo stack is the snapshot it pops, not the
\* history at the time of the call (current_history is only what a failed
\* call leaves in place).
UndoRedoManager_redo(u, r, current_history) ==
    IF r = <<>>
    THEN [raised |-> "HistoryError", undo |-> u, redo |-> r,
          ret |-> current_history]
    ELSE [raised |-> "none",
          undo |-> Append(u, Last(r)),
          redo |-> Front(r),
          ret |-> retrieve(Last(r))]

\* reset: both stacks are emptied.
UndoRedoManager_reset(u, r) == [undo |-> <<>>, redo |-> <<>>]

\* has_undo: a bare return statement, so the value is None whatever the
\* undo stack holds.
UndoRedoManager_has_undo(u) == "None"

\* bool(value) of a value returned by a query.
bool(value) == value = "True"

\* ---------------------------------------------------------- CalculatorApp
\* The part of the session the commands transform.
AppState(h, u, r, f, t, e) ==
    [history |-> h, undo |-> u, redo |-> r, file |-> f, clock |-> t,
     raised |-> e]
Current == AppState(history, undo_stack, redo_stack, file, clock, raised)

\* AutoSaveWatcher.notify: saves a non-empty history.
AutoSaveWatcher_notify(h, f) ==
    IF auto_save /\ Len(h) > 0 THEN CalculationHistory_save_to_csv(h) ELSE f

\* Variant: the record is added before the operation is created and run, so
\* a failing operation leaves a record with result 0 in the history.
CalculatorApp_execute_operation_adds_first(s, max, op_name, a, b) ==
    IF ~(validate_number(a) /\ validate_number(b))
       \/ ~(validate_in_range(a.val, max_input_value)
            /\ validate_in_range(b.val, max_input_value))
    THEN [s EXCEPT !.raised = "ValidationError"]
    ELSE
      LET rec == UndoRedoManager_record_state(
                     s.undo, s.redo, CalculationHistory_get_history(s.history))
          made == create_operation(op_name)
          res == Operation_execute(op_name, a.val, b.val)
          now == s.clock + 1
          calc == Calculation(op_name, a.val, b.val, res.value, now)
          h2 == CalculationHistory_add_calculation(s.history, calc, max)
          added == [s EXCEPT !.undo = rec.undo, !.redo = rec.redo,
                             !.history = h2, !.clock = now]
      IN  IF made.raised # "none"
          THEN [added EXCEPT !.raised = made.raised]
          ELSE IF res.raised # "none"
          THEN [added EXCEPT !.raised = res.raised]
          ELSE [added EXCEPT !.file = AutoSaveWatcher_notify(h2, s.file),
                             !.raised = "none"]

\* CalculatorApp.execute_operation(op_name, a, b) from state s.
CalculatorApp_execute_operation(s, max, op_name, a, b) ==
    IF ~(validate_number(a) /\ validate_number(b))
       \/ ~(validate_in_range(a.val, max_input_value)
            /\ validate_in_range(b.val, max_input_value))
    THEN [s EXCEPT !.raised = "ValidationError"]
    ELSE
      LET rec == UndoRedoManager_record_state(
                     s.undo, s.redo, CalculationHistory_get_history(s.history))
          recorded == [s EXCEPT !.undo = rec.undo, !.redo = rec.redo]
          made == create_operation(op_name)
          res == Operation_execute(op_name, a.val, b.val)
      IN  IF made.raised # "none"
          THEN [recorded EXCEPT !.raised = made.raised]
          ELSE IF res.raised # "none"
          THEN [recorded EXCEPT !.raised = res.raised]
          ELSE
            LET now == s.clock + 1
                calc == Calculation(op_name, a.val, b.val, res.value, now)
                h2 == CalculationHistory_add_calculation(s.history, calc, max)
            IN  [recorded EXCEPT !.history = h2,
                                 !.clock = now,
                                 !.file = AutoSaveWatcher_notify(h2, s.file),
                                 !.raised = "none"]

\* Variant: the restored records are appended to the live history.
CalculatorApp_undo_extends(s) ==
    LET r == UndoRedoManager_undo(
                 s.undo, s.redo, CalculationHistory_get_history(s.history))
    IN  IF r.raised # "none"
        THEN [s EXCEPT !.undo = r.undo, !.redo = r.redo, !.raised = r.raised]
        ELSE [s EXCEPT !.history = s.history \o r.ret, !.undo = r.undo,
                       !.redo = r.redo, !.raised = "none"]

\* CalculatorApp.undo from state s; the HistoryError is caught and printed,
\* the stacks are whatever the manager left.
CalculatorApp_undo(s) ==
    LET r == UndoRedoManager_undo(
                 s.undo, s.redo, CalculationHistory_get_history(s.history))
    IN  IF r.raised # "none"
        THEN [s EXCEPT !.undo = r.undo, !.redo = r.redo, !.raised = r.raised]
        ELSE [s EXCEPT !.history = r.ret, !.undo = r.undo, !.redo = r.redo,
                       !.raised = "none"]

\* CalculatorApp.redo from state s; the HistoryError is caught and printed.
CalculatorApp_redo(s) ==
    LET r == UndoRedoManager_redo(s.undo, s.redo, s.history)
    IN  IF r.raised # "none"
        THEN [s EXCEPT !.undo = r.undo, !.redo = r.redo, !.raised = r.raised]
        ELSE [s EXCEPT !.history = r.ret, !.undo = r.undo, !.redo = r.redo,
                       !.raised = "none"]

\* CalculatorApp.clear_history from state s.
CalculatorApp_clear_history(s) ==
    LET m == UndoRedoManager_reset(s.undo, s.redo)
    IN  [s EXCEPT !.history = CalculationHistory_clear_history(s.history),
                  !.undo = m.undo, !.redo = m.redo, !.raised = "none"]

\* CalculatorApp.save_history from state s.
CalculatorApp_save_history(s) ==
    [s EXCEPT !.file = CalculationHistory_save_to_csv(s.history),
              !.raised = "none"]

\* CalculatorApp.load_history from state s.
CalculatorApp_load_history(s) ==
    [s EXCEPT !.history = CalculationHistory_load_from_csv(s.file),
              !.raised = "none"]

\* ---------------------------------------------------------------- actions
Apply(name, r) ==
    /\ history' = r.history
    /\ undo_stack' = r.undo
    /\ redo_stack' = r.redo
    /\ file' = r.file
    /\ clock' = r.clock
    /\ cmd' = name
    /\ raised' = r.raised
    /\ UNCHANGED <<max_size, history_file, ret, call, outcome, registry,
                   created, raw_input, parsed, is_running, watchers, notified,
                   input_helper, loop, printed, heap>>

Init ==
    /\ history = <<>>
    /\ undo_stack = <<>>
    /\ redo_stack = <<>>
    /\ max_size \in 1..MaxHistorySize
    /\ file = NoFile
    /\ clock = 0
    /\ cmd = "start"
    /\ raised = "none"
    /\ history_file = NoHistoryFile
    /\ ret = NoReturn
    /\ call = NoCall
    /\ outcome = NoOutcome
    /\ registry = DefaultOperations
    /\ created = NoInstance
    /\ raw_input = NoInput
    /\ parsed = NoParse
    /\ is_running = TRUE
    /\ watchers = <<>>
    /\ notified = <<>>
    /\ input_helper = [max_value |-> max_input_value,
                       min_value |-> -max_input_value]
    /\ loop = "none"
    /\ printed = <<>>
    /\ heap = NoHeap

execute_operation ==
    /\ Len(undo_stack) < MaxStack
    /\ clock < MaxClock
    /\ \E op_name \in OpNames, a \in OperandsA, b \in OperandsB :
          Apply("calc",
                CalculatorApp_execute_operation(Current, max_size, op_name, a, b))

undo == Apply("undo", CalculatorApp_undo(Current))

redo == Apply("redo", CalculatorApp_redo(Current))

clear_history == Apply("clear", CalculatorApp_clear_history(Current))

save_history == Apply("save", CalculatorApp_save_history(Current))

load_history == Apply("load", CalculatorApp_load_history(Current))

Next ==
    \/ execute_operation
    \/ undo
    \/ redo
    \/ clear_history
    \/ save_history
    \/ load_history

Spec == Init /\ [][Next]_vars

\* ------------------------------------------------- the worked example
\* A session with the capacity of the example, long enough for four
\* calculations; the file is written by auto-save and never loaded.
ExampleInit ==
    /\ history = <<>>
    /\ undo_stack = <<>>
    /\ redo_stack = <<>>
    /\ max_size = ExampleCapacity
    /\ file = NoFile
    /\ clock = 0
    /\ cmd = "start"
    /\ raised = "none"
    /\ history_file = NoHistoryFile
    /\ ret = NoReturn
    /\ call = NoCall
    /\ outcome = NoOutcome
    /\ registry = DefaultOperations
    /\ created = NoInstance
    /\ raw_input = NoInput
    /\ parsed = NoParse
    /\ is_running = TRUE
    /\ watchers = <<>>
    /\ notified = <<>>
    /\ input_helper = [max_value |-> max_input_value,
                       min_value |-> -max_input_value]
    /\ loop = "none"
    /\ printed = <<>>
    /\ heap = NoHeap

example_execute_operation ==
    /\ Len(undo_stack) < ExampleAdds
    /\ clock < ExampleAdds
    /\ \E op_name \in OpNames, a \in OperandsA, b \in OperandsB :
          Apply("calc",
                CalculatorApp_execute_operation(Current, max_size, op_name, a, b))

ExampleNext ==
    \/ example_execute_operation
    \/ undo
    \/ redo
    \/ clear_history

ExampleSpec == ExampleInit /\ [][ExampleNext]_vars

\* ------------------------------------------------- operation arithmetic
\* Operands and results are rationals n/d in lowest terms with d > 0.
Abs(n) == IF n < 0 THEN -n ELSE n

RECURSIVE GCD(_, _)
GCD(x, y) == IF y = 0 THEN x ELSE GCD(y, x % y)

Q(n, d) ==
    LET g == GCD(Abs(n), Abs(d))
        sgn == IF d < 0 THEN -1 ELSE 1
    IN  [n |-> (sgn * n) \div g, d |-> Abs(d) \div g]

QInt(k) == [n |-> k, d |-> 1]
QAdd(x, y) == Q(x.n * y.d + y.n * x.d, x.d * y.d)
QSub(x, y) == Q(x.n * y.d - y.n * x.d, x.d * y.d)
QMul(x, y) == Q(x.n * y.n, x.d * y.d)
QDiv(x, y) == Q(x.n * y.d, x.d * y.n)
QAbs(x) == [n |-> Abs(x.n), d |-> x.d]
QIsInteger(x) == x.d = 1
\* floor(x), and x rounded toward zero.
QFloor(x) == x.n \div x.d
QTrunc(x) == IF x.n >= 0 THEN x.n \div x.d ELSE -((-x.n) \div x.d)

RECURSIVE QPow(_, _)
\* x to the k-th power for an integer k (x # 0 when k < 0).
QPow(x, k) ==
    IF k = 0 THEN QInt(1)
    ELSE IF k < 0 THEN QDiv(QInt(1), QPow(x, -k))
    ELSE QMul(x, QPow(x, k - 1))

RECURSIVE OnlyFactors(_, _)
\* TRUE iff every prime factor of k >= 1 is in ps.
OnlyFactors(k, ps) ==
    IF k = 1 THEN TRUE
    ELSE IF \E p \in ps : k % p = 0
    THEN OnlyFactors(k \div (CHOOSE p \in ps : k % p = 0), ps)
    ELSE FALSE

\* The value x as a result: kind "exact" if the number type holds x, kind
\* "rounded" if it holds the representable number nearest to x.
Exact(x) == [kind |-> "exact", n |-> x.n, d |-> x.d]
\* Python float: binary fractions.
Float(x) ==
    [kind |-> IF OnlyFactors(x.d, {2}) THEN "exact" ELSE "rounded",
     n |-> x.n, d |-> x.d]
\* decimal.Decimal: decimal fractions.
Decimal(x) ==
    [kind |-> IF OnlyFactors(x.d, {2, 5}) THEN "exact" ELSE "rounded",
     n |-> x.n, d |-> x.d]
\* A float whose value is not computed here, and a complex number.
SomeFloat == [kind |-> "float", n |-> 0, d |-> 1]
Complex == [kind |-> "complex", n |-> 0, d |-> 1]

Returns(v) == [raised |-> "none", value |-> v]
Raises(e) == [raised |-> e, value |-> NoValue]

\* pow(x, y) and x ** y on floats: ZeroDivisionError for 0 to a negative
\* power, a complex number for a negative base with a fractional exponent.
float_pow(x, y) ==
    IF x.n = 0 /\ y.n < 0 THEN Raises("ZeroDivisionError")
    ELSE IF x.n < 0 /\ ~QIsInteger(y) THEN Returns(Complex)
    ELSE IF x.n = 0 THEN Returns(Exact(QInt(IF y.n = 0 THEN 1 ELSE 0)))
    ELSE IF x = QInt(1) THEN Returns(Exact(QInt(1)))
    ELSE IF QIsInteger(y) /\ Abs(y.n) <= MaxExactPower
    THEN Returns(Float(QPow(x, y.n)))
    ELSE Returns(SomeFloat)

\* Decimal(z) for the float or complex z that pow returned.
Decimal_of_float(r) ==
    IF r.raised # "none" THEN r
    ELSE IF r.value.kind = "complex" THEN Raises("TypeError")
    ELSE r

\* Decimal a // b and a % b: the quotient is rounded toward zero and the
\* remainder has the sign of a.
\* Variant: the quotient is rounded down.
Decimal_floordiv_floor(a, b) == QInt(QFloor(QDiv(a, b)))

Decimal_floordiv(a, b) == QInt(QTrunc(QDiv(a, b)))
\* The remainder is computed on the magnitudes and given the sign of a.
Decimal_mod(a, b) ==
    LET whole == QFloor(QDiv(QAbs(a), QAbs(b)))
        rest == QSub(QAbs(a), QMul(QAbs(b), QInt(whole)))
    IN  IF a.n < 0 THEN QSub(QInt(0), rest) ELSE rest
\* float x // y and x % y: the quotient is rounded down and the remainder
\* has the sign of y.
float_floordiv(x, y) == QInt(QFloor(QDiv(x, y)))
\* fmod(x, y), moved by y when its sign is not the sign of y.
float_mod(x, y) ==
    LET rest == Decimal_mod(x, y)
    IN  IF rest.n # 0 /\ ((rest.n < 0) # (y.n < 0)) THEN QAdd(rest, y)
        ELSE rest

\* (x / y) * 100 with the division rounded as the number type rounds it.
Percent(quotient) ==
    [kind |-> quotient.kind,
     n |-> QMul(quotient, QInt(100)).n, d |-> QMul(quotient, QInt(100)).d]

\* OperationFactory.create_operation(op).execute(a, b) on Decimal operands.
operations_execute(op, a, b) ==
    CASE op = "add" -> Returns(Exact(QAdd(a, b)))
      [] op = "subtract" -> Returns(Exact(QSub(a, b)))
      [] op = "multiply" -> Returns(Exact(QMul(a, b)))
      [] op = "divide" ->
            IF b.n = 0 THEN Raises("ValidationError")
            ELSE Returns(Decimal(QDiv(a, b)))
      [] op = "power" ->
            IF a.n < 0 /\ Decimal_mod(b, QInt(1)).n # 0
            THEN Raises("ValidationError")
            ELSE Decimal_of_float(float_pow(a, b))
      [] op = "root" ->
            IF a.n < 0 THEN Raises("ValidationError")
            ELSE IF b.n = 0 THEN Raises("ValidationError")
            ELSE Decimal_of_float(float_pow(a, QDiv(QInt(1), b)))
      [] op = "modulus" ->
            IF b.n = 0 THEN Raises("ValidationError")
            ELSE Returns(Exact(Decimal_mod(a, b)))
      [] op = "int_divide" ->
            IF b.n = 0 THEN Raises("ValidationError")
            ELSE Returns(Exact(Decimal_floordiv(a, b)))
      [] op = "percent" ->
            IF b.n = 0 THEN Raises("ValidationError")
            ELSE Returns(Percent(Decimal(QDiv(a, b))))
      [] op = "abs_diff" -> Returns(Exact(QAbs(QSub(a, b))))
      [] OTHER -> Raises("ValueError")

\* CalcOpFactory.create(op).execute(x, y) on float operands.
CalcOperation_execute(op, x, y) ==
    CASE op = "add" -> Returns(Exact(QAdd(x, y)))
      [] op = "subtract" -> Returns(Exact(QSub(x, y)))
      [] op = "multiply" -> Returns(Float(QMul(x, y)))
      [] op = "divide" ->
            IF y.n = 0 THEN Raises("OperationError")
            ELSE Returns(Float(QDiv(x, y)))
      [] op = "int_divide" ->
            IF y.n = 0 THEN Raises("OperationError")
            ELSE Returns(Exact(float_floordiv(x, y)))
      [] op = "modulus" ->
            IF y.n = 0 THEN Raises("OperationError")
            ELSE Returns(Exact(float_mod(x, y)))
      [] op = "power" -> float_pow(x, y)
      [] op = "root" ->
            IF y.n = 0 THEN Raises("OperationError")
            ELSE IF x.n < 0 /\ float_mod(y, QInt(2)).n = 0
            THEN Raises("OperationError")
            ELSE float_pow(x, QDiv(QInt(1), y))
      [] op = "percent" ->
            IF y.n = 0 THEN Raises("OperationError")
            ELSE Returns(Percent(Float(QDiv(x, y))))
      [] op = "abs_diff" -> Returns(Exact(QAbs(QSub(x, y))))
      [] OTHER -> Raises("OperationError")

\* Calculation.calculate: the table is keyed by the class names of the
\* operations; ArithmeticError, ValueError and InvalidOperation raised by a
\* formula are turned into OperationError, any other error is not.
Calculation_operation(op) ==
    CASE op = "add" -> "Addition"
      [] op = "subtract" -> "Subtraction"
      [] op = "multiply" -> "Multiplication"
      [] op = "divide" -> "Division"
      [] op = "power" -> "Power"
      [] op = "root" -> "Root"
      [] op = "modulus" -> "Modulus"
      [] op = "int_divide" -> "IntegerDivision"
      [] op = "percent" -> "Percentage"
      [] op = "abs_diff" -> "AbsoluteDifference"
      [] OTHER -> op

Calculation_catch(r) ==
    IF r.raised \in {"ZeroDivisionError", "InvalidOperation", "ValueError"}
    THEN Raises("OperationError")
    ELSE r

Calculation_calculate(operation, x, y) ==
    CASE operation = "Addition" -> Returns(Exact(QAdd(x, y)))
      [] operation = "Subtraction" -> Returns(Exact(QSub(x, y)))
      [] operation = "Multiplication" -> Returns(Exact(QMul(x, y)))
      [] operation = "Division" ->
            IF y.n # 0 THEN Returns(Decimal(QDiv(x, y)))
            ELSE Raises("OperationError")
      [] operation = "Power" ->
            IF y.n >= 0
            THEN Calculation_catch(Decimal_of_float(float_pow(x, y)))
            ELSE Raises("OperationError")
      [] operation = "Root" ->
            IF x.n >= 0 /\ y.n # 0
            THEN Calculation_catch(
                     Decimal_of_float(float_pow(x, QDiv(QInt(1), y))))
            ELSE Raises("OperationError")
      [] operation = "Modulus" ->
            IF y.n # 0 THEN Returns(Exact(Decimal_mod(x, y)))
            ELSE Raises("OperationError")
      [] operation = "IntegerDivision" ->
            IF y.n # 0 THEN Returns(Exact(Decimal_floordiv(x, y)))
            ELSE Raises("OperationError")
      [] operation = "Percentage" ->
            IF y.n # 0 THEN Returns(Percent(Decimal(QDiv(x, y))))
            ELSE Raises("OperationError")
      [] operation = "AbsoluteDifference" -> Returns(Exact(QAbs(QSub(x, y))))
      [] OTHER -> Raises("OperationError")

\* The three implementations of the operation table.
Implementations == {"operations", "logger", "calculation"}
\* Operands: the multiples of one half up to MaxOperand in absolute value.
Operands == {Q(h, 2) : h \in (-2 * MaxOperand)..(2 * MaxOperand)}
Calls ==
    [impl : Implementations, op : OperationFactory_operations,
     a : Operands, b : Operands]

Evaluate(c) ==
    CASE c.impl = "operations" -> operations_execute(c.op, c.a, c.b)
      [] c.impl = "logger" -> CalcOperation_execute(c.op, c.a, c.b)
      [] c.impl = "calculation" ->
            Calculation_calculate(Calculation_operation(c.op), c.a, c.b)

\* One call of one operation, for every implementation, name and operands.
OpsInit ==
    /\ history = <<>>
    /\ undo_stack = <<>>
    /\ redo_stack = <<>>
    /\ max_size = MaxHistorySize
    /\ file = NoFile
    /\ clock = 0
    /\ cmd = "start"
    /\ raised = "none"
    /\ history_file = NoHistoryFile
    /\ ret = NoReturn
    /\ call \in Calls
    /\ outcome = NoOutcome
    /\ registry = DefaultOperations
    /\ created = NoInstance
    /\ raw_input = NoInput
    /\ parsed = NoParse
    /\ is_running = TRUE
    /\ watchers = <<>>
    /\ notified = <<>>
    /\ input_helper = [max_value |-> max_input_value,
                       min_value |-> -max_input_value]
    /\ loop = "none"
    /\ printed = <<>>
    /\ heap = NoHeap

evaluate ==
    /\ ~outcome.done
    /\ outcome' = [done |-> TRUE, raised |-> Evaluate(call).raised,
                   value |-> Evaluate(call).value]
    /\ cmd' = "evaluate"
    /\ UNCHANGED <<history, undo_stack, redo_stack, max_size, file, clock,
                   raised, history_file, ret, call, registry, created,
                   raw_input, parsed, is_running, watchers, notified,
                   input_helper, loop, printed, heap>>

OpsNext == evaluate

OpsSpec == OpsInit /\ [][OpsNext]_vars

\* ------------------------------------------------------ persisted history
\* Calculation.to_dict: the numbers as text, the timestamp in ISO format.
Calculation_to_dict(c) ==
    [operation |-> c.operation,
     operand1 |-> ToString(c.operand_a),
     operand2 |-> ToString(c.operand_b),
     result |-> ToString(c.result),
     timestamp |-> ToString(c.timestamp)]

\* The columns to_dict writes and from_dict reads.
CalculationColumns ==
    {"operation", "operand1", "operand2", "result", "timestamp"}

\* A field of a row that is not the text of a number.
NotNumeric == "abc"

\* Decimal(text) succeeds; otherwise it raises InvalidOperation.
IsNumericText(text) == text # NotNumeric

\* Calculation.from_dict(data): a missing key, or a field Decimal() rejects,
\* is reported as OperationError; otherwise Calculation(...) is called with
\* result=..., which the dataclass declares with init=False, and the
\* TypeError is not among the caught ones.
Calculation_from_dict(data) ==
    IF ~(CalculationColumns \subseteq DOMAIN data)
    THEN [raised |-> "OperationError", value |-> data]
    ELSE IF \E k \in {"operand1", "operand2", "result"} :
               ~IsNumericText(data[k])
    THEN [raised |-> "OperationError", value |-> data]
    ELSE [raised |-> "TypeError", value |-> data]

\* A DataFrame: its columns ("none" for a frame without columns,
\* "calculation" for CalculationColumns, "foreign" for other columns, "mixed"
\* for both) and its rows.
DataFrame(columns, rows) == [columns |-> columns, rows |-> rows]

\* pd.DataFrame([calc.to_dict() for calc in history]).
DataFrame_of(h) ==
    DataFrame(IF h = <<>> THEN "none" ELSE "calculation",
              [i \in 1..Len(h) |-> Calculation_to_dict(h[i])])

\* pd.concat([df_existing, df], ignore_index=True).
concat(df_existing, df) ==
    DataFrame(IF df_existing.columns = "none" THEN df.columns
              ELSE IF df.columns \in {"none", df_existing.columns}
              THEN df_existing.columns
              ELSE "mixed",
              df_existing.rows \o df.rows)

\* df.to_csv(path, index=False): a frame without columns gives a file
\* without a header row.
to_csv(df) ==
    CsvFile(CASE df.columns = "none" -> "empty"
              [] df.columns = "calculation" -> "table"
              [] OTHER -> df.columns,
            df.rows)

\* pd.read_csv(path): the outcomes the library can produce.  A file whose
\* data rows have more fields than the header row is rejected with
\* ParserError, or read with the extra leading field as the row index; a
\* file without a header row is rejected with EmptyDataError, or read as a
\* frame without columns.
read_csv(f) ==
    CASE f.shape = "malformed" ->
            {[raised |-> "ParserError", df |-> DataFrame("none", <<>>)],
             [raised |-> "none", df |-> DataFrame("foreign", f.rows)]}
      [] f.shape = "empty" ->
            {[raised |-> "EmptyDataError", df |-> DataFrame("none", <<>>)],
             [raised |-> "none", df |-> DataFrame("none", <<>>)]}
      [] f.shape = "table" ->
            {[raised |-> "none", df |-> DataFrame("calculation", f.rows)]}
      [] OTHER ->
            {[raised |-> "none", df |-> DataFrame(f.shape, f.rows)]}

\* The file written by the malformed-file test: a header of two columns and
\* a data row of three fields.
MalformedFile ==
    CsvFile("malformed", <<[HeaderA |-> "ValueB", HeaderB |-> "ValueC"]>>)

\* AutoSaveObserver.save(history): the outcomes, each the error raised and
\* the file left behind.
AutoSaveObserver_save(h, f) ==
    IF f.exists
    THEN {IF r.raised # "none"
          THEN [raised |-> r.raised, file |-> f]
          ELSE [raised |-> "none",
                file |-> to_csv(concat(r.df, DataFrame_of(h)))]
          : r \in read_csv(f)}
    ELSE {[raised |-> "none", file |-> to_csv(DataFrame_of(h))]}

\* The list comprehension of AutoSaveObserver.load over the rows of df: the
\* first row that from_dict rejects ends it.
FromRows(rows) ==
    LET made == [i \in 1..Len(rows) |-> Calculation_from_dict(rows[i])]
        bad == {i \in 1..Len(rows) : made[i].raised # "none"}
    IN  IF bad # {}
        THEN [raised |-> made[CHOOSE i \in bad : \A j \in bad : i <= j].raised,
              ret |-> NoReturn]
        ELSE [raised |-> "none",
              ret |-> [kind |-> "list",
                       records |-> [i \in 1..Len(rows) |-> made[i].value]]]

\* Variant: an error while reading or converting the file is swallowed and
\* load returns None.
AutoSaveObserver_load_swallows(f) ==
    IF ~f.exists
    THEN {[raised |-> "none", ret |-> [kind |-> "None", records |-> <<>>]]}
    ELSE {IF r.raised # "none" \/ FromRows(r.df.rows).raised # "none"
          THEN [raised |-> "none", ret |-> [kind |-> "None", records |-> <<>>]]
          ELSE FromRows(r.df.rows)
          : r \in read_csv(f)}

\* AutoSaveObserver.load(): the outcomes, each the error raised and the
\* value returned.  None is returned when the file is missing.
AutoSaveObserver_load(f) ==
    IF ~f.exists
    THEN {[raised |-> "none", ret |-> [kind |-> "None", records |-> <<>>]]}
    ELSE {IF r.raised # "none"
          THEN [raised |-> r.raised, ret |-> NoReturn]
          ELSE FromRows(r.df.rows)
          : r \in read_csv(f)}

\* A session whose history is saved and loaded through AutoSaveObserver.
observer_save ==
    /\ Len(history_file.rows) + Len(history) <= MaxRows
    /\ \E o \in AutoSaveObserver_save(history, history_file) :
          /\ history_file' = o.file
          /\ raised' = o.raised
    /\ cmd' = "observer_save"
    /\ UNCHANGED <<history, undo_stack, redo_stack, max_size, file, clock,
                   ret, call, outcome, registry, created, raw_input,
                   parsed, is_running, watchers, notified,
                   input_helper, loop, printed, heap>>

observer_load ==
    /\ \E o \in AutoSaveObserver_load(history_file) :
          /\ ret' = o.ret
          /\ raised' = o.raised
    /\ cmd' = "observer_load"
    /\ UNCHANGED <<history, undo_stack, redo_stack, max_size, file, clock,
                   history_file, call, outcome, registry, created,
                   raw_input, parsed, is_running, watchers, notified,
                   input_helper, loop, printed, heap>>

\* The history file is replaced by one with a wrong column count.
corrupt_file ==
    /\ history_file' = MalformedFile
    /\ cmd' = "corrupt_file"
    /\ raised' = "none"
    /\ UNCHANGED <<history, undo_stack, redo_stack, max_size, file, clock,
                   ret, call, outcome, registry, created, raw_input,
                   parsed, is_running, watchers, notified,
                   input_helper, loop, printed, heap>>

\* One row of a saved history file is edited: its first operand is no
\* longer a number.  The header and the other rows are left as they were.
corrupt_row ==
    /\ history_file.exists
    /\ history_file.shape = "table"
    /\ \E i \in DOMAIN history_file.rows :
          /\ IsNumericText(history_file.rows[i].operand1)
          /\ history_file' =
                [history_file EXCEPT !.rows[i].operand1 = NotNumeric]
    /\ cmd' = "corrupt_row"
    /\ raised' = "none"
    /\ UNCHANGED <<history, undo_stack, redo_stack, max_size, file, clock,
                   ret, call, outcome, registry, created, raw_input,
                   parsed, is_running, watchers, notified,
                   input_helper, loop, printed, heap>>

\* AutoSaveObserver.update(calculation): with auto save on, the history of
\* the calculator is saved; the outcomes are those of save.
AutoSaveObserver_update(h, f) ==
    IF auto_save THEN AutoSaveObserver_save(h, f)
    ELSE {[raised |-> "none", file |-> f]}

\* A calculation in a session whose AutoSaveObserver is told of it.
observer_update ==
    /\ Len(undo_stack) < MaxStack
    /\ clock < MaxClock
    /\ Len(history_file.rows) + Len(history) <= MaxRows
    /\ \E op_name \in OpNames, a \in OperandsA, b \in OperandsB :
          LET r == CalculatorApp_execute_operation(
                       Current, max_size, op_name, a, b)
          IN  /\ history' = r.history
              /\ undo_stack' = r.undo
              /\ redo_stack' = r.redo
              /\ file' = r.file
              /\ clock' = r.clock
              /\ IF r.raised # "none"
                 THEN /\ raised' = r.raised
                      /\ history_file' = history_file
                 ELSE \E o \in AutoSaveObserver_update(r.history,
                                                       history_file) :
                         /\ raised' = o.raised
                         /\ history_file' = o.file
    /\ cmd' = "observer_update"
    /\ UNCHANGED <<max_size, ret, call, outcome, registry, created,
                   raw_input, parsed, is_running, watchers, notified,
                   input_helper, loop, printed, heap>>

PersistNext ==
    \/ execute_operation
    \/ undo
    \/ observer_save
    \/ observer_load
    \/ corrupt_file
    \/ corrupt_row
    \/ observer_update

PersistSpec == Init /\ [][PersistNext]_vars

\* ------------------------------------------------------ operation registry
\* str.lower() on the names used with the registry.
str_lower(name) ==
    CASE name \in {"SQRT", "Sqrt"} -> "sqrt"
      [] name \in {"ADD", "Add"} -> "add"
      [] name \in {"EXIT", "Exit"} -> "exit"
      [] name \in {"QUIT", "Quit"} -> "quit"
      [] name \in {"UNDO", "Undo"} -> "undo"
      [] OTHER -> name

\* Classes offered for registration: two subclasses of Operation and a class
\* that is not one.
SquareRoot == [name |-> "SquareRoot", base |-> "Operation"]
Cube == [name |-> "Cube", base |-> "Operation"]
NotAnOperation == [name |-> "NotAnOperation", base |-> "object"]
OperationClasses == {SquareRoot, Cube, NotAnOperation}
\* issubclass(operation_class, Operation).
issubclass_Operation(operation_class) == operation_class.base = "Operation"

\* Names passed to register_operation and to create_operation.
RegisteredNames == {"sqrt", "SQRT", "Sqrt", "add", "cube"}
RequestedNames ==
    {"sqrt", "SQRT", "Sqrt", "add", "ADD", "cube", "logarithm"}
        \cup OperationFactory_operations

\* Variant: the name is stored as it was given.
OperationFactory_register_operation_as_given(reg, name, operation_class) ==
    IF ~issubclass_Operation(operation_class)
    THEN [raised |-> "TypeError", registry |-> reg]
    ELSE [raised |-> "none",
          registry |-> (name :> operation_class.name) @@ reg]

\* OperationFactory.register_operation(name, operation_class).
OperationFactory_register_operation(reg, name, operation_class) ==
    IF ~issubclass_Operation(operation_class)
    THEN [raised |-> "TypeError", registry |-> reg]
    ELSE [raised |-> "none",
          registry |-> (str_lower(name) :> operation_class.name) @@ reg]

\* OperationFactory.create_operation(operation_type) with the registry reg.
OperationFactory_create_operation(reg, operation_type) ==
    IF str_lower(operation_type) \in DOMAIN reg
    THEN [raised |-> "none", instance |-> reg[str_lower(operation_type)]]
    ELSE [raised |-> "ValueError", instance |-> "none"]

\* CalcOpFactory._operation_map and CalcOpFactory.create(op_name).
CalcOpFactory_operation_map ==
    [add |-> "SumOp", subtract |-> "SubtractOp", multiply |-> "MultiplyOp",
     divide |-> "DivideOp", power |-> "PowerOp", root |-> "RootOp",
     modulus |-> "ModulusOp", int_divide |-> "IntDivideOp",
     percent |-> "PercentOp", abs_diff |-> "AbsDiffOp"]

CalcOpFactory_create(op_name) ==
    IF str_lower(op_name) \in DOMAIN CalcOpFactory_operation_map
    THEN [raised |-> "none",
          instance |-> CalcOpFactory_operation_map[str_lower(op_name)]]
    ELSE [raised |-> "OperationError", instance |-> "none"]

\* What a registry call leaves in `created`: its arguments and its result.
Created(r, name, operation_class) ==
    [raised |-> r.raised, instance |-> r.instance, name |-> name,
     cls |-> operation_class]

register_operation ==
    \E name \in RegisteredNames, operation_class \in OperationClasses :
       LET r == OperationFactory_register_operation(
                    registry, name, operation_class)
       IN  /\ registry' = r.registry
           /\ raised' = r.raised
           /\ created' = [raised |-> r.raised, instance |-> "none",
                          name |-> name, cls |-> operation_class]
           /\ cmd' = "register_operation"
           /\ UNCHANGED <<history, undo_stack, redo_stack, max_size, file,
                          clock, history_file, ret, call, outcome, raw_input,
                          parsed, is_running, watchers, notified,
                   input_helper, loop, printed, heap>>

create_operation_call ==
    \E name \in RequestedNames :
       LET r == OperationFactory_create_operation(registry, name)
       IN  /\ raised' = r.raised
           /\ created' = Created(r, name, NoInstance.cls)
           /\ cmd' = "create_operation"
           /\ UNCHANGED <<history, undo_stack, redo_stack, max_size, file,
                          clock, history_file, ret, call, outcome, registry,
                          raw_input, parsed, is_running, watchers, notified,
                   input_helper, loop, printed, heap>>

create ==
    \E name \in RequestedNames :
       LET r == CalcOpFactory_create(name)
       IN  /\ raised' = r.raised
           /\ created' = Created(r, name, NoInstance.cls)
           /\ cmd' = "create"
           /\ UNCHANGED <<history, undo_stack, redo_stack, max_size, file,
                          clock, history_file, ret, call, outcome, registry,
                          raw_input, parsed, is_running, watchers, notified,
                   input_helper, loop, printed, heap>>

RegistryNext ==
    \/ register_operation
    \/ create_operation_call
    \/ create

RegistrySpec == Init /\ [][RegistryNext]_vars

\* ------------------------------------------------------------- validator
\* Arguments of parse_operand besides numbers and text: None, and the text
\* "nan", which float() accepts.
NONE == [kind |-> "none", val |-> 0]
NOT_A_NUMBER == [kind |-> "nan", val |-> 0]

\* InputHelper(max_value, min_value).
InputHelper(max_value, min_value) ==
    [max_value |-> max_value, min_value |-> min_value]

\* Variant: the upper bound is exclusive.
InputHelper_parse_operand_below_max(self, input_str) ==
    IF input_str.kind = "none"
    THEN [raised |-> "InputValidationError", value |-> 0, done |-> TRUE]
    ELSE IF input_str.kind = "text"
    THEN [raised |-> "InputValidationError", value |-> 0, done |-> TRUE]
    ELSE IF ~(/\ input_str.kind = "num"
              /\ self.min_value <= input_str.val
              /\ input_str.val < self.max_value)
    THEN [raised |-> "InputValidationError", value |-> 0, done |-> TRUE]
    ELSE [raised |-> "none", value |-> input_str.val, done |-> TRUE]

\* InputHelper.parse_operand(input_str): None is rejected, text that float()
\* does not accept is rejected, and so is a value outside
\* min_value <= value <= max_value (every comparison with nan is false).
InputHelper_parse_operand(self, input_str) ==
    IF input_str.kind = "none"
    THEN [raised |-> "InputValidationError", value |-> 0, done |-> TRUE]
    ELSE IF input_str.kind = "text"
    THEN [raised |-> "InputValidationError", value |-> 0, done |-> TRUE]
    ELSE IF ~(/\ input_str.kind = "num"
              /\ self.min_value <= input_str.val
              /\ input_str.val <= self.max_value)
    THEN [raised |-> "InputValidationError", value |-> 0, done |-> TRUE]
    ELSE [raised |-> "none", value |-> input_str.val, done |-> TRUE]

\* The helpers and the arguments of ValidatorSpec.
Helpers ==
    {InputHelper(hi, lo) : hi \in 0..MaxInputValue, lo \in (-MaxInputValue)..0}
OperandInputs ==
    {NUM(v) : v \in (-MaxInputValue - 1)..(MaxInputValue + 1)}
        \cup {NAN, NONE, NOT_A_NUMBER}

\* One call of parse_operand, for every helper and argument.
ValidatorInit ==
    /\ history = <<>>
    /\ undo_stack = <<>>
    /\ redo_stack = <<>>
    /\ max_size = MaxHistorySize
    /\ file = NoFile
    /\ clock = 0
    /\ cmd = "start"
    /\ raised = "none"
    /\ history_file = NoHistoryFile
    /\ ret = NoReturn
    /\ call = NoCall
    /\ outcome = NoOutcome
    /\ registry = DefaultOperations
    /\ created = NoInstance
    /\ raw_input \in {[kind |-> "operand", command |-> "", args |-> <<t>>] :
                        t \in OperandInputs}
    /\ parsed = NoParse
    /\ is_running = TRUE
    /\ watchers = <<>>
    /\ notified = <<>>
    /\ input_helper \in Helpers
    /\ loop = "none"
    /\ printed = <<>>
    /\ heap = NoHeap

parse_operand ==
    /\ ~parsed.done
    /\ parsed' = InputHelper_parse_operand(input_helper, raw_input.args[1])
    /\ raised' = parsed'.raised
    /\ cmd' = "parse_operand"
    /\ UNCHANGED <<history, undo_stack, redo_stack, max_size, file, clock,
                   history_file, ret, call, outcome, registry, created,
                   raw_input, is_running, watchers, notified, input_helper, loop, printed, heap>>

ValidatorNext == parse_operand

ValidatorSpec == ValidatorInit /\ [][ValidatorNext]_vars

\* ---------------------------------------------------------- command loops
\* What input() delivers: a line (its first word as typed and the words
\* after it; the empty line has no first word), end of input, or Ctrl+C.
Line(command, args) == [kind |-> "line", command |-> command, args |-> args]
EndOfInput == [kind |-> "eof", command |-> "", args |-> <<>>]
Interrupt == [kind |-> "interrupt", command |-> "", args |-> <<>>]

\* The first words and the argument lists typed in ReplSpec.
TypedCommands ==
    {"", "add", "ADD", "divide", "foo", "clear", "undo", "redo", "history",
     "exit", "EXIT", "quit", "QUIT"}
TypedArguments ==
    {<<>>, <<NUM(1)>>, <<NUM(1), NUM(0), NUM(1)>>}
        \cup {<<a, b>> : a \in OperandsA, b \in OperandsB}
Inputs ==
    {Line(c, args) : c \in TypedCommands, args \in TypedArguments}
        \cup {EndOfInput, Interrupt}

\* The commands parse_command_input accepts without operands.
NoOperandCommands ==
    {"history", "clear", "undo", "redo", "save", "load", "help", "exit"}

Rejected(e) == [raised |-> e, command |-> "", operands |-> <<>>]

\* InputHelper.parse_command_input(user_input).
InputHelper_parse_command_input(self, user_input) ==
    LET command == str_lower(user_input.command)
        args_str == user_input.args
    IN  IF user_input.command = ""
        THEN Rejected("InputValidationError")
        ELSE IF command \in NoOperandCommands
        THEN IF args_str # <<>>
             THEN Rejected("InputValidationError")
             ELSE [raised |-> "none", command |-> command, operands |-> <<>>]
        ELSE IF command \in OperationFactory_operations
        THEN IF Len(args_str) # 2
             THEN Rejected("InputValidationError")
             ELSE LET a == InputHelper_parse_operand(self, args_str[1])
                      b == InputHelper_parse_operand(self, args_str[2])
                  IN  IF a.raised # "none" THEN Rejected(a.raised)
                      ELSE IF b.raised # "none" THEN Rejected(b.raised)
                      ELSE [raised |-> "none", command |-> command,
                            operands |-> <<a.value, b.value>>]
        ELSE Rejected("InputValidationError")

\* The calculator method behind a command without operands; history, help
\* and exit leave the session alone.
ControlCommand(s, command) ==
    CASE command = "clear" -> CalculatorApp_clear_history(s)
      [] command = "undo" -> CalculatorApp_undo(s)
      [] command = "redo" -> CalculatorApp_redo(s)
      [] command = "save" -> CalculatorApp_save_history(s)
      [] command = "load" -> CalculatorApp_load_history(s)
      [] OTHER -> [s EXCEPT !.raised = "none"]

\* One iteration of a loop: the session it leaves, the calculator method it
\* invoked ("none" if none) and whether the loop goes on.
Iteration(s, invoked, running) ==
    [state |-> s, invoked |-> invoked, running |-> running]
Skipped(s, e, running) ==
    Iteration([s EXCEPT !.raised = e], "none", running)

\* Variant: an error raised by a handler is not caught and ends the loop.
REPL_run_uncaught(s, max, self, inp) ==
    CASE inp.kind = "eof" -> Skipped(s, "EOFError", FALSE)
      [] inp.kind = "interrupt" -> Skipped(s, "KeyboardInterrupt", FALSE)
      [] inp.kind = "line" /\ inp.command = "" -> Skipped(s, "none", TRUE)
      [] OTHER ->
            LET p == InputHelper_parse_command_input(self, inp)
                done == IF p.command \in OperationFactory_operations
                        THEN CalculatorApp_execute_operation(
                                 s, max, p.command,
                                 NUM(p.operands[1]), NUM(p.operands[2]))
                        ELSE ControlCommand(s, p.command)
            IN  IF p.raised # "none" THEN Skipped(s, p.raised, TRUE)
                ELSE Iteration(done,
                               IF p.command \in OperationFactory_operations
                               THEN "calc" ELSE p.command,
                               p.command # "exit" /\ done.raised = "none")

\* One iteration of REPL.run.  Every error of a handler is caught; end of
\* input and Ctrl+C clear is_running.
REPL_run(s, max, self, inp) ==
    CASE inp.kind = "eof" -> Skipped(s, "EOFError", FALSE)
      [] inp.kind = "interrupt" -> Skipped(s, "KeyboardInterrupt", FALSE)
      [] inp.kind = "line" /\ inp.command = "" -> Skipped(s, "none", TRUE)
      [] OTHER ->
            LET p == InputHelper_parse_command_input(self, inp)
            IN  IF p.raised # "none" THEN Skipped(s, p.raised, TRUE)
                ELSE IF p.command \in OperationFactory_operations
                THEN Iteration(
                         CalculatorApp_execute_operation(
                             s, max, p.command,
                             NUM(p.operands[1]), NUM(p.operands[2])),
                         "calc", TRUE)
                ELSE Iteration(ControlCommand(s, p.command), p.command,
                               p.command # "exit")

\* One iteration of CalculatorApp.repl: the first word alone selects the
\* command; Ctrl+C and every other exception, EOFError included, are
\* caught inside the loop.
CalculatorApp_repl(s, max, inp) ==
    LET c == str_lower(inp.command)
    IN  CASE inp.kind = "eof" -> Skipped(s, "EOFError", TRUE)
          [] inp.kind = "interrupt" -> Skipped(s, "KeyboardInterrupt", TRUE)
          [] inp.kind = "line" /\ inp.command = "" -> Skipped(s, "none", TRUE)
          [] OTHER ->
                IF c = "exit" THEN Iteration([s EXCEPT !.raised = "none"],
                                             "exit", FALSE)
                ELSE IF c \in {"help", "history"}
                THEN Iteration([s EXCEPT !.raised = "none"], c, TRUE)
                ELSE IF c \in {"clear", "undo", "redo", "save", "load"}
                THEN Iteration(ControlCommand(s, c), c, TRUE)
                ELSE IF c \in OperationFactory_operations
                THEN IF Len(inp.args) # 2 THEN Skipped(s, "none", TRUE)
                     ELSE Iteration(
                              CalculatorApp_execute_operation(
                                  s, max, c, inp.args[1], inp.args[2]),
                              "calc", TRUE)
                ELSE Skipped(s, "none", TRUE)

\* The loop reads one input and processes it.
\* What REPL.run prints for one line.  The calculator's undo and redo raise
\* HistoryError to the loop, which prints the error; the success message of
\* a handler follows the call and is printed only when the call returns.
REPL_run_printed(inp, r) ==
    CASE inp.kind # "line" \/ inp.command = "" -> <<>>
      [] r.state.raised # "none" -> <<"Error">>
      [] r.invoked = "undo" -> <<"Undo successful">>
      [] r.invoked = "redo" -> <<"Redo successful">>
      [] OTHER -> <<"message">>

\* What CalculatorApp.repl prints for one line.  CalculatorApp.undo and redo
\* catch HistoryError themselves and print the error; the loop then prints
\* the success message whatever happened in the call.
CalculatorApp_repl_printed(inp, r) ==
    CASE inp.kind = "eof" -> <<"Unexpected error">>
      [] inp.kind = "interrupt" -> <<"Use 'exit' to quit">>
      [] inp.command = "" -> <<>>
      [] r.invoked = "undo" ->
            (IF r.state.raised # "none" THEN <<"Error">> ELSE <<>>)
               \o <<"Undo successful">>
      [] r.invoked = "redo" ->
            (IF r.state.raised # "none" THEN <<"Error">> ELSE <<>>)
               \o <<"Redo successful">>
      [] r.state.raised # "none" -> <<"Error">>
      [] OTHER -> <<"message">>

Iterate(inp, r, out) ==
    /\ r.invoked = "calc" =>
          (Len(undo_stack) < MaxReplCalcs /\ clock < MaxReplCalcs)
    /\ raw_input' = inp
    /\ history' = r.state.history
    /\ undo_stack' = r.state.undo
    /\ redo_stack' = r.state.redo
    /\ file' = r.state.file
    /\ clock' = r.state.clock
    /\ raised' = r.state.raised
    /\ cmd' = r.invoked
    /\ is_running' = r.running
    /\ printed' = out
    /\ UNCHANGED <<max_size, history_file, ret, call, outcome, registry,
                   created, parsed, watchers, notified, input_helper, loop,
                   heap>>

REPL_run_iteration ==
    /\ loop = "REPL.run"
    /\ is_running
    /\ \E inp \in Inputs :
          LET r == REPL_run(Current, max_size, input_helper, inp)
          IN  Iterate(inp, r, REPL_run_printed(inp, r))

CalculatorApp_repl_iteration ==
    /\ loop = "CalculatorApp.repl"
    /\ is_running
    /\ \E inp \in Inputs :
          LET r == CalculatorApp_repl(Current, max_size, inp)
          IN  Iterate(inp, r, CalculatorApp_repl_printed(inp, r))

ReplInit ==
    /\ history = <<>>
    /\ undo_stack = <<>>
    /\ redo_stack = <<>>
    /\ max_size = MaxHistorySize
    /\ file = NoFile
    /\ clock = 0
    /\ cmd = "start"
    /\ raised = "none"
    /\ history_file = NoHistoryFile
    /\ ret = NoReturn
    /\ call = NoCall
    /\ outcome = NoOutcome
    /\ registry = DefaultOperations
    /\ created = NoInstance
    /\ raw_input = NoInput
    /\ parsed = NoParse
    /\ is_running = TRUE
    /\ watchers = <<>>
    /\ notified = <<>>
    /\ input_helper = InputHelper(max_input_value, -max_input_value)
    /\ loop \in {"REPL.run", "CalculatorApp.repl"}
    /\ printed = <<>>
    /\ heap = NoHeap

ReplNext ==
    \/ REPL_run_iteration
    \/ CalculatorApp_repl_iteration

ReplSpec == ReplInit /\ [][ReplNext]_vars

\* -------------------------------------------------------------- watchers
\* The watchers CalculatorApp.__init__ registers: LogWatcher always, and
\* AutoSaveWatcher when the configuration asks for auto save.
DefaultWatchers ==
    IF auto_save THEN <<"LogWatcher", "AutoSaveWatcher">> ELSE <<"LogWatcher">>

\* The watchers a caller registers after construction.
Watchers == {"w1", "w2"}

\* CalculatorApp.register_watcher: the watcher is appended, whether or not
\* it is already in the list.
CalculatorApp_register_watcher(ws, watcher) == Append(ws, watcher)

\* CalculatorApp.watchers: the default watchers, then the registered ones.
CalculatorApp_watchers(ws) == DefaultWatchers \o ws

\* One call watcher.notify(calc); seen is the history at the time of the call.
Notification(watcher, calc, seen) ==
    [watcher |-> watcher, event |-> "calculation_performed",
     data |-> calc, seen |-> seen]

\* CalculatorApp.notify_watchers: one call per entry of the list, in order.
CalculatorApp_notify_watchers(ws, calc, seen) ==
    [i \in 1..Len(ws) |-> Notification(ws[i], calc, seen)]

\* The notifications execute_operation delivers: notify_watchers is its last
\* step, after add_calculation, and is not reached when an earlier step raises.
CalculatorApp_execute_operation_notifications(r, ws) ==
    IF r.raised = "none"
    THEN CalculatorApp_notify_watchers(CalculatorApp_watchers(ws),
                                       Last(r.history), r.history)
    ELSE <<>>

register_watcher ==
    /\ Len(watchers) < MaxWatchers
    /\ \E watcher \in Watchers :
          watchers' = CalculatorApp_register_watcher(watchers, watcher)
    /\ cmd' = "register_watcher"
    /\ raised' = "none"
    /\ notified' = <<>>
    /\ UNCHANGED <<history, undo_stack, redo_stack, max_size, file, clock,
                   history_file, ret, call, outcome, registry, created,
                   raw_input, parsed, is_running, input_helper, loop, printed, heap>>

watched_execute_operation ==
    /\ Len(undo_stack) < MaxStack
    /\ clock < MaxClock
    /\ \E op_name \in OpNames, a \in OperandsA, b \in OperandsB :
          LET r == CalculatorApp_execute_operation(
                       Current, max_size, op_name, a, b)
          IN  /\ history' = r.history
              /\ undo_stack' = r.undo
              /\ redo_stack' = r.redo
              /\ file' = r.file
              /\ clock' = r.clock
              /\ cmd' = "calc"
              /\ raised' = r.raised
              /\ notified' =
                    CalculatorApp_execute_operation_notifications(r, watchers)
    /\ UNCHANGED <<max_size, history_file, ret, call, outcome, registry,
                   created, raw_input, parsed, is_running, watchers,
                   input_helper, loop, printed, heap>>

ObserverNext ==
    \/ register_watcher
    \/ watched_execute_operation

ObserverSpec == Init /\ [][ObserverNext]_vars

\* ------------------------------------------------------- list objects
\* The session again, with every Python list as an object on a heap, so that
\* two references to one list can be told from two equal lists.  h.lists[a]
\* is the content of the list at address a, h.live the address of the list
\* the history holds, h.undo and h.redo the stacks of snapshot objects; a
\* snapshot object is the address of its _snapshot list and, for reference,
\* the content it was created with.

\* deepcopy(x): a new list with the content of the list at address a.
deepcopy(h, a) ==
    [heap |-> [h EXCEPT !.lists = Append(@, h.lists[a])],
     ret |-> Len(h.lists) + 1]

\* Variant: the snapshot keeps the list it was given, without a copy.
HistorySnapshot_init_aliased(h, records) ==
    [heap |-> h,
     snapshot |-> [ref |-> records, made |-> h.lists[records]]]

\* HistorySnapshot.__init__(records): self._snapshot = deepcopy(records).
HistorySnapshot_init(h, records) ==
    LET c == deepcopy(h, records)
    IN  [heap |-> c.heap,
         snapshot |-> [ref |-> c.ret, made |-> h.lists[records]]]

\* HistorySnapshot.retrieve(): deepcopy(self._snapshot).
HistorySnapshot_retrieve(h, snapshot) == deepcopy(h, snapshot.ref)

\* UndoRedoManager.record_state on the heap.
Heap_record_state(h, current_history) ==
    LET s == HistorySnapshot_init(h, current_history)
    IN  [s.heap EXCEPT !.undo = Append(@, s.snapshot), !.redo = <<>>]

\* UndoRedoManager.undo on the heap.
Heap_undo(h, current_history) ==
    IF h.undo = <<>>
    THEN [raised |-> "HistoryError", heap |-> h, ret |-> current_history]
    ELSE LET s == HistorySnapshot_init(h, current_history)
             pushed == [s.heap EXCEPT !.redo = Append(@, s.snapshot),
                                      !.undo = Front(@)]
             got == HistorySnapshot_retrieve(pushed, Last(h.undo))
         IN  [raised |-> "none", heap |-> got.heap, ret |-> got.ret]

\* UndoRedoManager.redo on the heap.
Heap_redo(h) ==
    IF h.redo = <<>>
    THEN [raised |-> "HistoryError", heap |-> h, ret |-> h.live]
    ELSE LET next_state == Last(h.redo)
             moved == [h EXCEPT !.redo = Front(@),
                                !.undo = Append(@, next_state)]
             got == HistorySnapshot_retrieve(moved, next_state)
         IN  [raised |-> "none", heap |-> got.heap, ret |-> got.ret]

\* CalculatorApp.execute_operation on the heap.  get_history() hands out the
\* history's own list and add_calculation changes that list in place: the
\* history that shares the most with its callers.
\* s is the session before the call and r the session after it; the input
\* checks come before record_state, the operation after it.
Heap_execute_operation(h, s, r) ==
    IF Len(r.undo) = Len(s.undo) THEN h
    ELSE LET recorded == Heap_record_state(h, h.live)
         IN  IF r.raised # "none" THEN recorded
             ELSE [recorded EXCEPT !.lists[h.live] = r.history]

\* CalculatorApp.undo on the heap: self.history._history = restored_history.
Heap_CalculatorApp_undo(h) ==
    LET u == Heap_undo(h, h.live)
    IN  IF u.raised # "none" THEN h ELSE [u.heap EXCEPT !.live = u.ret]

\* CalculatorApp.redo on the heap.
Heap_CalculatorApp_redo(h) ==
    LET u == Heap_redo(h)
    IN  IF u.raised # "none" THEN h ELSE [u.heap EXCEPT !.live = u.ret]

\* CalculatorApp.clear_history on the heap: the list is emptied in place and
\* the manager is reset.
Heap_CalculatorApp_clear_history(h) ==
    [h EXCEPT !.lists[h.live] = <<>>, !.undo = <<>>, !.redo = <<>>]

\* A command of the session, carried out on the values and on the heap.
ApplyBoth(name, r, h) ==
    /\ history' = r.history
    /\ undo_stack' = r.undo
    /\ redo_stack' = r.redo
    /\ file' = r.file
    /\ clock' = r.clock
    /\ cmd' = name
    /\ raised' = r.raised
    /\ heap' = h
    /\ UNCHANGED <<max_size, history_file, ret, call, outcome, registry,
                   created, raw_input, parsed, is_running, watchers, notified,
                   input_helper, loop, printed>>

heap_execute_operation ==
    /\ Len(undo_stack) < MaxStack
    /\ clock < MaxClock
    /\ Len(heap.lists) < MaxObjects
    /\ \E op_name \in OpNames, a \in OperandsA, b \in OperandsB :
          LET r == CalculatorApp_execute_operation(
                       Current, max_size, op_name, a, b)
          IN  ApplyBoth("calc", r, Heap_execute_operation(heap, Current, r))

heap_undo ==
    /\ Len(heap.lists) + 1 < MaxObjects
    /\ ApplyBoth("undo", CalculatorApp_undo(Current),
                 Heap_CalculatorApp_undo(heap))

heap_redo ==
    /\ Len(heap.lists) < MaxObjects
    /\ ApplyBoth("redo", CalculatorApp_redo(Current),
                 Heap_CalculatorApp_redo(heap))

heap_clear_history ==
    ApplyBoth("clear", CalculatorApp_clear_history(Current),
              Heap_CalculatorApp_clear_history(heap))

HeapNext ==
    \/ heap_execute_operation
    \/ heap_undo
    \/ heap_redo
    \/ heap_clear_history

HeapSpec == Init /\ [][HeapNext]_vars

\* ------------------------------------------------------ stored results
\* CalculatorConfig.precision: the decimal places of a stored result.
precision == 2

\* round(x, ndigits) of a number: the nearest multiple of 10^-ndigits, a tie
\* going to the even one.
round_half_even(x, ndigits) ==
    LET scaled == QMul(x, QInt(10 ^ ndigits))
        below == QFloor(scaled)
        rest == QSub(scaled, QInt(below))
        nearest == IF 2 * rest.n < rest.d THEN below
                   ELSE IF 2 * rest.n > rest.d THEN below + 1
                   ELSE IF below % 2 = 0 THEN below
                   ELSE below + 1
    IN  Q(nearest, 10 ^ ndigits)

\* round(result, ndigits) of what an operation returned.
round(v, ndigits) ==
    IF v.kind \in {"exact", "rounded"}
    THEN Exact(round_half_even([n |-> v.n, d |-> v.d], ndigits))
    ELSE v

\* The steps of execute_operation from the operation to the history: the
\* operation is executed, its result is rounded and stored in the record,
\* and the record is added.
CalculatorApp_execute_operation_record(op_name, a, b) ==
    LET result == operations_execute(op_name, a, b)
    IN  IF result.raised # "none"
        THEN [raised |-> result.raised, records |-> <<>>]
        ELSE [raised |-> "none",
              records |-> <<Calculation(op_name, a, b,
                                        round(result.value, precision), 1)>>]

\* One calculation, for every operation name and operands.
ResultInit ==
    /\ history = <<>>
    /\ undo_stack = <<>>
    /\ redo_stack = <<>>
    /\ max_size = MaxHistorySize
    /\ file = NoFile
    /\ clock = 0
    /\ cmd = "start"
    /\ raised = "none"
    /\ history_file = NoHistoryFile
    /\ ret = NoReturn
    /\ call \in {c \in Calls : c.impl = "operations"}
    /\ outcome = NoOutcome
    /\ registry = DefaultOperations
    /\ created = NoInstance
    /\ raw_input = NoInput
    /\ parsed = NoParse
    /\ is_running = TRUE
    /\ watchers = <<>>
    /\ notified = <<>>
    /\ input_helper = [max_value |-> max_input_value,
                       min_value |-> -max_input_value]
    /\ loop = "none"
    /\ printed = <<>>
    /\ heap = NoHeap

execute_operation_record ==
    /\ cmd = "start"
    /\ LET r == CalculatorApp_execute_operation_record(call.op, call.a, call.b)
       IN  /\ history' = history \o r.records
           /\ raised' = r.raised
           /\ undo_stack' = Append(undo_stack, history)
           /\ clock' = clock + Len(r.records)
    /\ cmd' = "calc"
    /\ UNCHANGED <<redo_stack, max_size, file, history_file, ret, call,
                   outcome, registry, created, raw_input, parsed, is_running,
                   watchers, notified, input_helper, loop, printed, heap>>

ResultNext == execute_operation_record

ResultSpec == ResultInit /\ [][ResultNext]_vars

\* ----------------------------------------------------------------- claims
\* The record created by the t-th calculation of a session.
Rec(t) == Calculation("add", 1, 0, 1, t)

\* C1: in every reachable state the number of records in the history is at
\* most the configured maximum size.
C1_HistoryWithinCapacity == Len(history) <= max_size

\* C1 witness: a full history, restored by load, after a record was evicted.
C1_Witness ==
    /\ cmd = "load"
    /\ Len(history) = max_size
    /\ clock > max_size

\* C2: a successful add to a full history yields the old history without
\* its oldest record followed by the new record; below capacity it appends
\* the new record and removes nothing.
C2_AddEvictsOldest ==
    [][(cmd' = "calc" /\ raised' = "none") =>
          /\ history' # <<>>
          /\ Last(history').timestamp = clock'
          /\ Front(history') =
                IF Len(history) = max_size THEN Tail(history) ELSE history]_vars

\* C2 witness: an add has just evicted the oldest record of a history that
\* held more than one record.
C2_Witness ==
    /\ cmd = "calc"
    /\ raised = "none"
    /\ max_size > 1
    /\ Len(history) = max_size
    /\ history[1].timestamp > 1

\* C3: whenever undo is possible, undo followed immediately by redo leaves
\* the history equal to what it was.
C3_UndoRedoRoundTrip ==
    undo_stack # <<>> =>
        CalculatorApp_redo(CalculatorApp_undo(Current)).history = history

\* C3 witness: undo is possible in a state with a non-empty history that
\* differs from the snapshot undo would restore.
C3_Witness ==
    /\ undo_stack # <<>>
    /\ history # <<>>
    /\ Last(undo_stack) # history
    /\ redo_stack # <<>>

\* C4: after a successful add, clear or load the redo stack is empty and a
\* redo attempted right away fails with HistoryError.
C4_MutationClearsRedo ==
    (cmd \in {"calc", "clear", "load"} /\ raised = "none") =>
        /\ redo_stack = <<>>
        /\ CalculatorApp_redo(Current).raised = "HistoryError"

\* The state right after adding A, B, C, D to an empty history of capacity 3:
\* the four snapshots are the histories the adds found.
AfterABCD ==
    /\ max_size = 3
    /\ clock = 4
    /\ cmd = "calc"
    /\ raised = "none"
    /\ undo_stack = << <<>>, <<Rec(1)>>, <<Rec(1), Rec(2)>>,
                       <<Rec(1), Rec(2), Rec(3)>> >>
    /\ redo_stack = <<>>

\* The histories after undo, undo, redo, redo issued from state s.
UndoUndoRedoRedo(s) ==
    LET s1 == CalculatorApp_undo(s)
        s2 == CalculatorApp_undo(s1)
        s3 == CalculatorApp_redo(s2)
        s4 == CalculatorApp_redo(s3)
    IN  <<s.history, s1.history, s2.history, s3.history, s4.history>>

\* C5 as stated: with capacity 3, adding A, B, C, D gives [B,C,D]; undo
\* gives [B,C]; undo gives [B]; redo gives [B,C]; redo gives [B,C,D].
C5_ExampleAsStated ==
    AfterABCD =>
        UndoUndoRedoRedo(Current) =
            << <<Rec(2), Rec(3), Rec(4)>>,
               <<Rec(2), Rec(3)>>,
               <<Rec(2)>>,
               <<Rec(2), Rec(3)>>,
               <<Rec(2), Rec(3), Rec(4)>> >>

\* C5 amended: with capacity 3, adding A, B, C, D gives [B,C,D]; undo gives
\* [A,B,C]; undo gives [A,B]; redo gives [A,B,C]; redo gives [B,C,D].
C5_ExampleAmended ==
    AfterABCD =>
        UndoUndoRedoRedo(Current) =
            << <<Rec(2), Rec(3), Rec(4)>>,
               <<Rec(1), Rec(2), Rec(3)>>,
               <<Rec(1), Rec(2)>>,
               <<Rec(1), Rec(2), Rec(3)>>,
               <<Rec(2), Rec(3), Rec(4)>> >>

\* C5 witness: the fourth add of the example has just been made.
C5_Witness == AfterABCD /\ history = <<Rec(2), Rec(3), Rec(4)>>

\* C6: undo with an empty undo stack fails with HistoryError and leaves the
\* history, the undo stack and the redo stack as they were.
C6_UndoOnEmptyFails ==
    [][(cmd' = "undo" /\ undo_stack = <<>>) =>
          /\ raised' = "HistoryError"
          /\ history' = history
          /\ undo_stack' = undo_stack
          /\ redo_stack' = redo_stack]_vars

\* C6 witness: an undo has just failed in a session that has pending redo
\* entries.
C6_Witness ==
    /\ cmd = "undo"
    /\ raised = "HistoryError"
    /\ undo_stack = <<>>
    /\ redo_stack # <<>>

\* C7: redo with an empty redo stack fails with HistoryError and leaves the
\* history, the undo stack and the redo stack as they were.
C7_RedoOnEmptyFails ==
    [][(cmd' = "redo" /\ redo_stack = <<>>) =>
          /\ raised' = "HistoryError"
          /\ history' = history
          /\ undo_stack' = undo_stack
          /\ redo_stack' = redo_stack]_vars

\* C7 witness: a redo has just failed in a session that has a history and
\* undo entries.
C7_Witness ==
    /\ cmd = "redo"
    /\ raised = "HistoryError"
    /\ redo_stack = <<>>
    /\ undo_stack # <<>>
    /\ history # <<>>

\* C8: a successful redo pushes the history as it was just before the redo
\* onto the undo stack, so an undo right after it returns the history to
\* what it was before the redo.
C8_UndoAfterRedo ==
    redo_stack # <<>> =>
        LET s1 == CalculatorApp_redo(Current)
        IN  /\ s1.undo = Append(undo_stack, history)
            /\ CalculatorApp_undo(s1).history = history

\* C9: a successful add pushes exactly one snapshot, equal to the history
\* before the add, onto the undo stack, and an undo right after the add
\* restores that history.
C9_AddSnapshotsPreState ==
    [][(cmd' = "calc" /\ raised' = "none") =>
          /\ undo_stack' = Append(undo_stack, history)
          /\ CalculatorApp_undo(Current').history = history]_vars

\* C9 witness: an add has just evicted a record, and the snapshot on top of
\* the undo stack still starts with the evicted record.
C9_Witness ==
    /\ cmd = "calc"
    /\ raised = "none"
    /\ Len(undo_stack) > 1
    /\ Len(Last(undo_stack)) = max_size
    /\ Last(undo_stack)[1] # history[1]

\* C10: clear on an empty history leaves the history empty and leaves the
\* undo stack and the redo stack exactly as they were.
C10_ClearEmptyIsNoOp ==
    [][(cmd' = "clear" /\ history = <<>>) =>
          /\ history' = <<>>
          /\ undo_stack' = undo_stack
          /\ redo_stack' = redo_stack]_vars

\* C11: clear on a non-empty history empties the history and pushes exactly
\* one snapshot of the cleared history onto the undo stack, keeping the
\* earlier entries, so an undo right after the clear restores that history.
C11_ClearSnapshotsPreState ==
    [][(cmd' = "clear" /\ history # <<>>) =>
          /\ history' = <<>>
          /\ undo_stack' = Append(undo_stack, history)
          /\ CalculatorApp_undo(Current').history = history]_vars

\* C12: a successful load replaces the history with the persisted records
\* and pushes exactly one snapshot of the pre-load history onto the undo
\* stack, so an undo right after the load restores the pre-load history.
C12_LoadSnapshotsPreState ==
    [][(cmd' = "load" /\ raised' = "none") =>
          /\ history' = CalculationHistory_load_from_csv(file)
          /\ undo_stack' = Append(undo_stack, history)
          /\ CalculatorApp_undo(Current').history = history]_vars

\* C13: when executing an operation fails, the history holds exactly the
\* records it held before the command.
C13_FailedOperationKeepsHistory ==
    [][(cmd' = "calc" /\ raised' # "none") => history' = history]_vars

\* C13 witness: an operation has just failed after its operands were
\* accepted (unknown name or division by zero), in a session with records.
C13_Witness ==
    /\ cmd = "calc"
    /\ raised \in {"ValueError", "ValidationError"}
    /\ history # <<>>
    /\ undo_stack # <<>>
    /\ Last(undo_stack) = history

C15_LoadWithoutFileReturnsEmpty ==
    [][(cmd' = "observer_load" /\ ~history_file.exists) =>
          /\ raised' = "none"
          /\ ret' = [kind |-> "list", records |-> <<>>]
          /\ history' = history]_vars

\* C16: a load right after a successful save of the history H returns a
\* sequence of the same length as H whose i-th record has the operation
\* name, operands and result of the i-th record of H.
C16_SaveLoadRoundTrip ==
    [][(cmd = "observer_save" /\ raised = "none"
        /\ cmd' = "observer_load") =>
          /\ raised' = "none"
          /\ ret'.kind = "list"
          /\ Len(ret'.records) = Len(history)
          /\ \A i \in 1..Len(history) :
                /\ ret'.records[i].operation = history[i].operation
                /\ ret'.records[i].operand_a = history[i].operand_a
                /\ ret'.records[i].operand_b = history[i].operand_b
                /\ ret'.records[i].result = history[i].result]_vars

\* The operations that divide by their second operand.
ZeroDivisorOps == {"divide", "int_divide", "modulus", "percent", "root"}
IsEven(x) == QIsInteger(x) /\ x.n % 2 = 0

\* C17: divide, int_divide, modulus, percent and root applied to (a, 0)
\* fail with OperationError, with no other kind of error, and return no
\* result.
C17_ZeroDivisorFailsWithOperationError ==
    (outcome.done /\ call.op \in ZeroDivisorOps /\ call.b.n = 0) =>
        /\ outcome.raised = "OperationError"
        /\ outcome.value = NoValue

\* C18: root(a, b) fails exactly when b = 0, or a < 0 and b is even; a
\* negative a with an even b fails with OperationError.
C18_RootFailsExactlyOnDomain ==
    (outcome.done /\ call.op = "root") =>
        /\ (outcome.raised # "none") <=>
               (call.b.n = 0 \/ (call.a.n < 0 /\ IsEven(call.b)))
        /\ (call.a.n < 0 /\ IsEven(call.b)) =>
               outcome.raised = "OperationError"

\* C19: power(a, b) fails exactly when a < 0 and b is not an integer; a
\* negative exponent with a non-negative base does not fail.
C19_PowerFailsExactlyOnDomain ==
    (outcome.done /\ call.op = "power") =>
        ((outcome.raised # "none") <=>
             (call.a.n < 0 /\ ~QIsInteger(call.b)))

\* C20: for integers a and b # 0, int_divide(a, b) is floor(a/b) and
\* modulus(a, b) is a - b * floor(a/b), which has the sign of b.
C20_FloorConvention ==
    (/\ outcome.done
     /\ QIsInteger(call.a) /\ QIsInteger(call.b) /\ call.b.n # 0) =>
        /\ call.op = "int_divide" =>
              /\ outcome.raised = "none"
              /\ outcome.value = Exact(QInt(QFloor(QDiv(call.a, call.b))))
        /\ call.op = "modulus" =>
              /\ outcome.raised = "none"
              /\ outcome.value =
                    Exact(QSub(call.a,
                               QMul(call.b,
                                    QInt(QFloor(QDiv(call.a, call.b))))))

\* The spellings of one name in different letter cases.
SqrtSpellings == {"sqrt", "SQRT", "Sqrt"}

\* C21: register_operation rejects a class that is not an Operation with an
\* error and leaves the mapping unchanged; after a conforming class has been
\* registered under a name, create_operation with that name in any letter
\* case returns an instance of that class.
C21_RegisterOperation ==
    [][cmd' = "register_operation" =>
          IF created'.cls = NotAnOperation
          THEN raised' # "none" /\ registry' = registry
          ELSE /\ raised' = "none"
               /\ created'.name \in SqrtSpellings =>
                     \A n \in SqrtSpellings :
                        OperationFactory_create_operation(registry', n)
                            = [raised |-> "none",
                               instance |-> created'.cls.name]]_vars

\* C21 witness: a non-conforming class has just been rejected in a registry
\* that holds a class registered under a name given in upper case.
C21_Witness ==
    /\ cmd = "register_operation"
    /\ raised = "TypeError"
    /\ created.cls = NotAnOperation
    /\ "sqrt" \in DOMAIN registry
    /\ registry["sqrt"] = "Cube"

\* C22: requesting a name that is not in the registry fails with
\* OperationError, and each of the ten operation names resolves to an
\* operation.
C22_UnknownNameIsOperationError ==
    [][cmd' \in {"create_operation", "create"} =>
          /\ created'.name \in OperationFactory_operations =>
                (raised' = "none" /\ created'.instance # "none")
          /\ created'.name = "logarithm" => raised' = "OperationError"]_vars

\* C23: parse_operand accepts a numeric operand v exactly when
\* min_value <= v <= max_value, both bounds inclusive, and returns v; a
\* missing, non-numeric or out-of-range input is rejected with a validation
\* error and yields no value.
C23_ValidatorRange ==
    parsed.done =>
        LET tok == raw_input.args[1]
            in_range == /\ tok.kind = "num"
                        /\ input_helper.min_value <= tok.val
                        /\ tok.val <= input_helper.max_value
        IN  /\ in_range => (parsed.raised = "none" /\ parsed.value = tok.val)
            /\ ~in_range => /\ parsed.raised = "InputValidationError"
                            /\ parsed.value = NoParse.value

\* C23 witness: an operand equal to the upper bound has been accepted by a
\* helper whose bounds differ.
C23_Witness ==
    /\ parsed.done
    /\ raw_input.args[1] = NUM(input_helper.max_value)
    /\ input_helper.min_value < input_helper.max_value
    /\ parsed.raised = "none"
    /\ parsed.value = input_helper.max_value

\* A line is well formed when it is an arithmetic command with exactly two
\* numeric arguments in range, or a command without operands and without
\* arguments.
WellFormed(inp) ==
    /\ inp.kind = "line"
    /\ \/ /\ str_lower(inp.command) \in OperationFactory_operations
          /\ Len(inp.args) = 2
          /\ \A i \in 1..2 :
                /\ inp.args[i].kind = "num"
                /\ input_helper.min_value <= inp.args[i].val
                /\ inp.args[i].val <= input_helper.max_value
       \/ /\ str_lower(inp.command) \in NoOperandCommands
          /\ inp.args = <<>>

\* The calculator methods a command can invoke.
CalculatorMethods == {"calc", "clear", "undo", "redo", "save", "load"}

\* C24: for a line that is not well formed (empty, unknown command, wrong
\* argument count, non-numeric or out-of-range operand) no calculator
\* operation is invoked and the history, the undo stack and the redo stack
\* are unchanged.
C24_MalformedLineInvokesNothing ==
    [][(raw_input'.kind = "line" /\ ~WellFormed(raw_input')) =>
          /\ cmd' \notin CalculatorMethods
          /\ history' = history
          /\ undo_stack' = undo_stack
          /\ redo_stack' = redo_stack]_vars

\* C25: exit and quit, in any letter case, are accepted and end the command
\* loop.
C25_ExitAndQuitEndTheLoop ==
    [][(/\ raw_input'.kind = "line"
        /\ str_lower(raw_input'.command) \in {"exit", "quit"}
        /\ raw_input'.args = <<>>) =>
          /\ raised' = "none"
          /\ ~is_running']_vars

\* The errors a command can raise.
CommandErrors ==
    {"OperationError", "ValidationError", "InputValidationError",
     "HistoryError", "ValueError"}

\* C26 as stated: no error raised while processing a command ends the
\* command loop, and the loop stops only on exit or end of input.
C26_AsStated ==
    [][/\ raised' \in CommandErrors => is_running'
       /\ (is_running /\ ~is_running') =>
             \/ raw_input'.kind = "eof"
             \/ /\ raw_input'.kind = "line"
                /\ str_lower(raw_input'.command) = "exit"]_vars

\* C26: no error raised while processing a command ends the command loop:
\* after it the loop is still running; the loop stops only on exit, on end
\* of input or on a keyboard interrupt at the prompt.
C26_ErrorsDoNotEndTheLoop ==
    [][/\ raised' \in CommandErrors => is_running'
       /\ (is_running /\ ~is_running') =>
             \/ raw_input'.kind \in {"eof", "interrupt"}
             \/ /\ raw_input'.kind = "line"
                /\ str_lower(raw_input'.command) = "exit"]_vars

\* C26 witness: an undo has just failed with HistoryError in REPL.run after
\* a calculation, and the loop is still running.
C26_Witness ==
    /\ loop = "REPL.run"
    /\ cmd = "undo"
    /\ raised = "HistoryError"
    /\ clock > 0
    /\ is_running

\* The notifications of the last command delivered to watcher w.
NotifiedTo(w) == {i \in DOMAIN notified : notified[i].watcher = w}

\* C27: attaching an observer is idempotent: an observer attached more than
\* once is registered once and receives one notification per event.
C27_AttachIsIdempotent ==
    \A w \in Watchers : Cardinality(NotifiedTo(w)) <= 1

\* C28: every successful calculation notifies each attached observer exactly
\* once, after the record is added: the observer sees the new record as the
\* last record of the history.
C28_SuccessNotifiesEachOnce ==
    [][(cmd' = "calc" /\ raised' = "none") =>
          LET attached == CalculatorApp_watchers(watchers')
          IN  \A i \in DOMAIN attached :
                 \E n \in DOMAIN notified' :
                    /\ notified'[n].watcher = attached[i]
                    /\ notified'[n].event = "calculation_performed"
                    /\ notified'[n].data = Last(history')
                    /\ Last(notified'[n].seen) = notified'[n].data
                    /\ \A m \in DOMAIN notified' :
                          notified'[m].watcher = attached[i] => m = n]_vars

\* The step is a calculation whose operation failed: the operands passed the
\* input checks, the state was recorded for undo, and an error was raised.
OperationFailed ==
    /\ cmd' = "calc"
    /\ raised' # "none"
    /\ Len(undo_stack') > Len(undo_stack)

\* C29: when a calculation fails in its operation, the error is an
\* OperationError that reaches the caller, each attached observer receives
\* exactly one error_occurred notification, and none receives a
\* calculation_performed notification.
C29_FailureNotifiesError ==
    [][OperationFailed =>
          LET attached == CalculatorApp_watchers(watchers')
          IN  /\ raised' = "OperationError"
              /\ \A i \in DOMAIN attached :
                    Cardinality({n \in DOMAIN notified' :
                                    /\ notified'[n].watcher = attached[i]
                                    /\ notified'[n].event = "error_occurred"})
                       = 1
              /\ \A n \in DOMAIN notified' :
                    notified'[n].event # "calculation_performed"]_vars

\* A row of a history file that from_dict can read: it has the calculation
\* columns and its operands and result are numbers.
WellFormedRow(row) ==
    /\ CalculationColumns \subseteq DOMAIN row
    /\ \A k \in {"operand1", "operand2", "result"} : IsNumericText(row[k])

\* C30: loading a file with a valid header in which an individual row is
\* malformed succeeds, skips that row, and returns the well-formed rows in
\* their order.
C30_MalformedRowIsSkipped ==
    [][(/\ cmd' = "observer_load"
        /\ history_file.exists
        /\ history_file.shape = "table"
        /\ \E i \in DOMAIN history_file.rows :
              ~WellFormedRow(history_file.rows[i])) =>
          /\ raised' = "none"
          /\ ret'.kind = "list"
          /\ ret'.records = SelectSeq(history_file.rows, WellFormedRow)]_vars

\* C31: has_undo reports whether an undo is possible: in every reachable
\* state it is true exactly when the undo stack is non-empty.
C31_HasUndoReportsStack ==
    bool(UndoRedoManager_has_undo(undo_stack)) <=> (undo_stack # <<>>)

\* C32: when undo (or redo) is issued with nothing to undo (or redo), the
\* command loop reports the error and does not report success.
C32_FailedUndoReportsErrorOnly ==
    [][(cmd' \in {"undo", "redo"} /\ raised' = "HistoryError") =>
          /\ \E i \in DOMAIN printed' : printed'[i] = "Error"
          /\ \A i \in DOMAIN printed' :
                printed'[i] \notin {"Undo successful", "Redo successful"}]_vars

\* C33: the command loop terminates when the input ends: once reading a
\* command signals end of input, the loop stops and never reads again.
C33_EndOfInputStopsLoop ==
    /\ [][raw_input'.kind = "eof" => ~is_running']_vars
    /\ [][~is_running => raw_input' = raw_input]_vars

\* The commands that modify the history.
HistoryEvents == {"calc", "clear", "load", "undo", "redo"}

\* C34: with the auto-save observer attached, every event that modifies the
\* history triggers a save: after each such event the persisted records
\* equal the in-memory history.
C34_HistoryEventsAreSaved ==
    [][(cmd' \in HistoryEvents /\ raised' = "none") =>
          file'.rows = history']_vars

\* The snapshot objects on the two stacks.
Snapshots ==
    {heap.undo[i] : i \in DOMAIN heap.undo}
       \cup {heap.redo[i] : i \in DOMAIN heap.redo}

\* C35: a snapshot never changes after it is created: whatever is later added
\* to, cleared from or restored into the live history, every snapshot on the
\* undo and redo stacks still holds the sequence it was created with.
C35_SnapshotsNeverChange ==
    \A s \in Snapshots : heap.lists[s.ref] = s.made

\* C35 witness: a snapshot taken of a non-empty history is on a stack, and
\* the live history, a list that retrieve returned, has since been changed.
C35_Witness ==
    /\ \E s \in Snapshots : s.made # <<>> /\ heap.lists[heap.live] # s.made
    /\ heap.live # 1
    /\ cmd = "calc"
    /\ raised = "none"

\* The values of the session are the contents of the list objects.
HeapAgrees ==
    /\ history = heap.lists[heap.live]
    /\ undo_stack = [i \in DOMAIN heap.undo |-> heap.lists[heap.undo[i].ref]]
    /\ redo_stack = [i \in DOMAIN heap.redo |-> heap.lists[heap.redo[i].ref]]

\* C36: every record that enters the history through a calculation has a
\* result equal to the registry's operation applied to the record's two
\* operands: the stored result is what the operation returned.
C36_StoredResultIsOperationResult ==
    \A i \in DOMAIN history :
       LET rec == history[i]
           applied == operations_execute(rec.operation, rec.operand_a,
                                         rec.operand_b)
       IN  /\ applied.raised = "none"
           /\ rec.result = applied.value

\* C37: a calculation command that fails for any reason leaves the undo
\* stack and the redo stack exactly as they were.
C37_FailedCalculationKeepsStacks ==
    [][(cmd' = "calc" /\ raised' # "none") =>
          /\ undo_stack' = undo_stack
          /\ redo_stack' = redo_stack]_vars

\* C38: undo and redo only move snapshots between the two stacks: a
\* successful undo takes one from the undo stack and puts one on the redo
\* stack, a successful redo does the reverse, and so no undo or redo changes
\* the total number of snapshots on both stacks.
C38_UndoRedoMoveSnapshots ==
    [][/\ (cmd' = "undo" /\ raised' = "none") =>
             /\ Len(undo_stack') = Len(undo_stack) - 1
             /\ Len(redo_stack') = Len(redo_stack) + 1
       /\ (cmd' = "redo" /\ raised' = "none") =>
             /\ Len(undo_stack') = Len(undo_stack) + 1
             /\ Len(redo_stack') = Len(redo_stack) - 1
       /\ cmd' \in {"undo", "redo"} =>
             Len(undo_stack') + Len(redo_stack')
                = Len(undo_stack) + Len(redo_stack)]_vars

\* C38 witness: a redo has just succeeded after two undos, so both stacks
\* hold a snapshot.
C38_Witness ==
    /\ cmd = "redo"
    /\ raised = "none"
    /\ Len(undo_stack) = 1
    /\ Len(redo_stack) = 1

\* C39: int_divide and modulus are consistent with each other: for every
\* integer a and non-zero integer b, a = b * int_divide(a, b) + modulus(a, b)
\* and the absolute value of modulus(a, b) is less than that of b.
C39_DivModConsistent ==
    (/\ outcome.done
     /\ call.op \in {"int_divide", "modulus"}
     /\ QIsInteger(call.a) /\ QIsInteger(call.b) /\ call.b.n # 0) =>
        LET q == Evaluate([call EXCEPT !.op = "int_divide"])
            m == Evaluate([call EXCEPT !.op = "modulus"])
        IN  /\ q.raised = "none" /\ m.raised = "none"
            /\ outcome.value
                  = (IF call.op = "modulus" THEN m.value ELSE q.value)
            /\ q.value.d = 1 /\ m.value.d = 1
            /\ call.a.n = call.b.n * q.value.n + m.value.n
            /\ Abs(m.value.n) < Abs(call.b.n)

\* C39 witness: the modulus of a negative integer by a positive integer that
\* does not divide it has been evaluated.
C39_Witness ==
    /\ outcome.done
    /\ call.op = "modulus"
    /\ QIsInteger(call.a) /\ QIsInteger(call.b)
    /\ call.a.n < 0 /\ call.b.n > 1
    /\ outcome.raised = "none"
    /\ outcome.value.n # 0

\* C40: with auto-save enabled, after every successful calculation the
\* persisted file holds exactly the records of the current in-memory
\* history, each once and in order, with no rows left from earlier saves
\* (the file being absent or as the program wrote it before the calculation).
C40_AutoSaveFileEqualsHistory ==
    [][(/\ cmd' = "observer_update" /\ raised' = "none"
        /\ history_file.shape = "table"
        /\ \A i \in DOMAIN history_file.rows :
              WellFormedRow(history_file.rows[i])) =>
          /\ history_file'.exists
          /\ history_file'.rows = DataFrame_of(history').rows]_vars
====
